---- MODULE Spec2Model ----
(***************************************************************************)
(* The C interface declared by test-project-ios/Test_Project/              *)
(* longhorn_mobile.h: ten free functions called by host platform code.     *)
(* The header is the whole source: the state is what crosses the ABI       *)
(* boundary (the call, its converted arguments, its returned value) and    *)
(* the record of which entry points have been invoked.  The engine behind  *)
(* the functions is not part of the source; what a call does inside the    *)
(* engine is an unconstrained choice of an outcome.                        *)
(***************************************************************************)
EXTENDS Integers, Sequences, FiniteSets

VARIABLES last, outcome, called

vars == <<last, outcome, called>>

\* ---------------------------------------------------------------- bounds
\* Largest integer a caller passes as a width or a height (the smallest is -1).
MaxDim == 1
\* Largest sample touch coordinate (the smallest is 0).
MaxCoord == 1
\* Number of distinct failure causes inside the engine.
MaxCause == 1

\* ------------------------------------------------------------ the header
\* uint32_t is 32 bits wide; a value is kept as its two 16-bit halves
\* <<high, low>>, each in 0 .. HalfWord-1.
HalfWord == 2^16

BoolFns == {"longhorn_init", "longhorn_create_with_metal", "longhorn_load_game",
            "longhorn_start", "longhorn_update"}

VoidFns == {"longhorn_handle_touch_start", "longhorn_handle_touch_move",
            "longhorn_handle_touch_end", "longhorn_resize", "longhorn_cleanup"}

EntryPoints == BoolFns \cup VoidFns

\* (void): a call without arguments.
NoArgs == <<>>

\* void* metal_layer: a null or a non-null opaque pointer.
MetalLayers == {"NULL", "layer"}

\* const char* path: a null pointer or a string.
Paths == {"NULL", "game"}

\* The integers a caller writes for a uint32_t parameter.
CallerInts == -1 .. MaxDim

\* The values a caller writes for a float parameter.
Coords == 0 .. MaxCoord

\* What the engine did with a call: 0 is success, k > 0 is failure cause k.
Outcomes == 0 .. MaxCause

\* Conversion of an integer argument to the uint32_t parameter: reduction
\* modulo 2^32, as halves.
ToUint32_unconverted(v) == <<v \div HalfWord, v % HalfWord>>

ToUint32(v) == <<(v \div HalfWord) % HalfWord, v % HalfWord>>

\* The value a bool function returns for an outcome of the engine.
BoolResult_with_cause(o) == <<o = 0, o>>

BoolResult(o) == <<o = 0>>

\* The value a void function returns: none.
VoidResult_reporting(o) == <<o = 0>>

VoidResult(o) == <<>>

\* What the declaration of entry point f requires of the state: nothing.
Declared_in_lifecycle(f) ==
    /\ "longhorn_cleanup" \notin called
    /\ f \in {"longhorn_update", "longhorn_resize"} => "longhorn_start" \in called

Declared(f) == TRUE

\* A call of f with converted arguments a, returning r, the engine having
\* ended with outcome o.
Invoke(f, a, r, o) ==
    /\ Declared(f)
    /\ last' = [fn |-> f, args |-> a, ret |-> r]
    /\ outcome' = o
    /\ called' = called \cup {f}

Init ==
    /\ last = [fn |-> "none", args |-> NoArgs, ret |-> <<>>]
    /\ outcome = 0
    /\ called = {}

\* ----------------------------------------------------------- entry points
longhorn_init ==
    \E o \in Outcomes : Invoke("longhorn_init", NoArgs, BoolResult(o), o)

longhorn_create_with_metal ==
    \E p \in MetalLayers, w \in CallerInts, h \in CallerInts, o \in Outcomes :
        Invoke("longhorn_create_with_metal",
               [metal_layer |-> p, width |-> ToUint32(w), height |-> ToUint32(h)],
               BoolResult(o), o)

longhorn_load_game ==
    \E p \in Paths, o \in Outcomes :
        Invoke("longhorn_load_game", [path |-> p], BoolResult(o), o)

longhorn_start ==
    \E o \in Outcomes : Invoke("longhorn_start", NoArgs, BoolResult(o), o)

longhorn_update ==
    \E o \in Outcomes : Invoke("longhorn_update", NoArgs, BoolResult(o), o)

longhorn_handle_touch_start ==
    \E x \in Coords, y \in Coords, o \in Outcomes :
        Invoke("longhorn_handle_touch_start", [x |-> x, y |-> y], VoidResult(o), o)

longhorn_handle_touch_move ==
    \E x \in Coords, y \in Coords, o \in Outcomes :
        Invoke("longhorn_handle_touch_move", [x |-> x, y |-> y], VoidResult(o), o)

longhorn_handle_touch_end ==
    \E x \in Coords, y \in Coords, o \in Outcomes :
        Invoke("longhorn_handle_touch_end", [x |-> x, y |-> y], VoidResult(o), o)

longhorn_resize ==
    \E w \in CallerInts, h \in CallerInts, o \in Outcomes :
        Invoke("longhorn_resize",
               [width |-> ToUint32(w), height |-> ToUint32(h)],
               VoidResult(o), o)

longhorn_cleanup ==
    \E o \in Outcomes : Invoke("longhorn_cleanup", NoArgs, VoidResult(o), o)

\* The interface by itself: any entry point, at any time.
Next ==
    \/ longhorn_init
    \/ longhorn_create_with_metal
    \/ longhorn_load_game
    \/ longhorn_start
    \/ longhorn_update
    \/ longhorn_handle_touch_start
    \/ longhorn_handle_touch_move
    \/ longhorn_handle_touch_end
    \/ longhorn_resize
    \/ longhorn_cleanup

Spec == Init /\ [][Next]_vars

\* ------------------------------------------------ the order the host keeps
\* init -> create-with-surface -> load-game -> start -> repeated
\* update/touch/resize -> cleanup.
HostMayCall_any_time(f) == TRUE

HostMayCall(f) ==
    CASE f = "longhorn_init" -> called = {}
      [] f = "longhorn_create_with_metal" -> called = {"longhorn_init"}
      [] f = "longhorn_load_game" ->
            called = {"longhorn_init", "longhorn_create_with_metal"}
      [] f = "longhorn_start" ->
            called = {"longhorn_init", "longhorn_create_with_metal",
                      "longhorn_load_game"}
      [] OTHER -> /\ "longhorn_start" \in called
                  /\ "longhorn_cleanup" \notin called

HostInit == HostMayCall("longhorn_init") /\ longhorn_init

HostCreate == HostMayCall("longhorn_create_with_metal") /\ longhorn_create_with_metal

HostLoadGame == HostMayCall("longhorn_load_game") /\ longhorn_load_game

HostStart == HostMayCall("longhorn_start") /\ longhorn_start

HostUpdate == HostMayCall("longhorn_update") /\ longhorn_update

HostTouchStart == HostMayCall("longhorn_handle_touch_start") /\ longhorn_handle_touch_start

HostTouchMove == HostMayCall("longhorn_handle_touch_move") /\ longhorn_handle_touch_move

HostTouchEnd == HostMayCall("longhorn_handle_touch_end") /\ longhorn_handle_touch_end

HostResize == HostMayCall("longhorn_resize") /\ longhorn_resize

HostCleanup == HostMayCall("longhorn_cleanup") /\ longhorn_cleanup

HostNext ==
    \/ HostInit
    \/ HostCreate
    \/ HostLoadGame
    \/ HostStart
    \/ HostUpdate
    \/ HostTouchStart
    \/ HostTouchMove
    \/ HostTouchEnd
    \/ HostResize
    \/ HostCleanup

\* The interface as driven by the host.
HostSpec == Init /\ [][HostNext]_vars

\* ------------------------------------------------------------- properties
\* The values of a uint32_t: 0 .. 2^32-1, as halves.
IsUint32(v) ==
    /\ Len(v) = 2
    /\ v[1] \in 0 .. HalfWord - 1
    /\ v[2] \in 0 .. HalfWord - 1

\* C1: driven by the host, every call keeps the lifecycle order: init first,
\* then create-with-metal, then load-game, then start, each once; an update,
\* touch or resize call only after start; cleanup only after start; and no
\* call at all once cleanup has been called.
C1_LifecycleOrder ==
    [][LET f == last'.fn IN
         /\ "longhorn_cleanup" \notin called
         /\ f = "longhorn_init" => called = {}
         /\ f = "longhorn_create_with_metal" => called = {"longhorn_init"}
         /\ f = "longhorn_load_game" =>
               called = {"longhorn_init", "longhorn_create_with_metal"}
         /\ f = "longhorn_start" =>
               called = {"longhorn_init", "longhorn_create_with_metal",
                         "longhorn_load_game"}
         /\ f \in VoidFns \cup {"longhorn_update"} => "longhorn_start" \in called
      ]_vars

\* C1 witness: a whole lifecycle has run, every entry point was called and
\* cleanup came last.
C1_Witness ==
    /\ called = EntryPoints
    /\ last.fn = "longhorn_cleanup"

C3_VoidNoResult ==
    last.fn \in VoidFns => last.ret = <<>>

\* C3 witness: a resize failed inside the engine and the caller got nothing.
C3_Witness ==
    /\ last.fn = "longhorn_resize"
    /\ outcome > 0
    /\ last.ret = <<>>

\* C4: the width and the height received by create-with-metal and by resize
\* are values of the same 32-bit unsigned type: each lies in 0 .. 2^32-1,
\* whatever integer the caller wrote.
C4_DimsAreUint32 ==
    last.fn \in {"longhorn_create_with_metal", "longhorn_resize"} =>
        /\ IsUint32(last.args.width)
        /\ IsUint32(last.args.height)

\* C4 witness: resize received the largest width, 2^32-1, and the height zero.
C4_Witness ==
    /\ last.fn = "longhorn_resize"
    /\ last.args.width = <<HalfWord - 1, HalfWord - 1>>
    /\ last.args.height = <<0, 0>>

\* C5: by the header alone every one of the ten entry points can be called in
\* every state.
C5_AlwaysCallable ==
    /\ ENABLED longhorn_init
    /\ ENABLED longhorn_create_with_metal
    /\ ENABLED longhorn_load_game
    /\ ENABLED longhorn_start
    /\ ENABLED longhorn_update
    /\ ENABLED longhorn_handle_touch_start
    /\ ENABLED longhorn_handle_touch_move
    /\ ENABLED longhorn_handle_touch_end
    /\ ENABLED longhorn_resize
    /\ ENABLED longhorn_cleanup

\* C5 witness: update was called though init never was and cleanup already
\* had been.
C5_Witness ==
    /\ last.fn = "longhorn_update"
    /\ "longhorn_init" \notin called
    /\ "longhorn_cleanup" \in called

====
